---- MODULE Spec2Model ----
(***************************************************************************)
(* Model of triggerpi.py: the trigger state machine (StateOff,             *)
(* StateTurningOn, StateArmed, StateOn), set_state() and the polling loop  *)
(* of trigger().                                                           *)
(*                                                                         *)
(* Time is counted in clock units of one READ_INTERVAL (0.2 s), so the     *)
(* elapsed-seconds comparisons of the code become comparisons against      *)
(* HOLD_TIME * TicksPerSecond.  Brightness is scaled by Full (= 1.0), so   *)
(* 1 - elapsed / POWERON_HOLD_TIME becomes Full - elapsed (in clock        *)
(* units) and .01 becomes Full \div 100.                                   *)
(*                                                                         *)
(* The outputs of the automationhat board (lights and relays) are the      *)
(* record hat; they are all off when the process starts.                   *)
(***************************************************************************)
EXTENDS Integers, Sequences, FiniteSets

\* ---------------------------------------------------------------- constants
POWERON_HOLD_TIME == 60
ARMED_HOLD_TIME == 30
\* clock units per second: one unit is one READ_INTERVAL of 0.2 s
TicksPerSecond == 5
READ_INTERVAL == 1

\* brightness 1.0 and the .01 floor, in scaled units
Full == POWERON_HOLD_TIME * TicksPerSecond
MinBrightness == Full \div 100

\* ------------------------------------------------------------------- bounds
\* number of iterations of the main loop that are explored while the input
\* is unconstrained
MaxTicks == 6

\* the input may go low for good only within this many iterations after startup
MaxFreeTicks == 3

\* number of further iterations explored once a constrained input has brought
\* the machine to the state it settles in
MaxCalm == 1

\* how long one sleep(READ_INTERVAL) plus the rest of the iteration may take:
\* the nominal interval, and overshoots that land just below / exactly on the
\* ARMED timeout (two of them reach the TURNING_ON timeout)
Delays == {READ_INTERVAL,
           ARMED_HOLD_TIME * TicksPerSecond - 1,
           ARMED_HOLD_TIME * TicksPerSecond}

Channels == 1..3
Samples == [Channels -> {0, 1}]
AllLow == [k \in Channels |-> 0]

VARIABLES
  pc,             \* position in trigger(): "start" before the first set_state, then "loop"
  current_state,  \* name of the class of the global current_state; "none" is None
  started,        \* current_state.started
  now,            \* the wall clock, datetime.datetime.now()
  hat,            \* outputs of the board: power, comms, warn, relay, and the
                  \* set of outputs written by the most recent step (writes)
  i,              \* the result of the most recent getInput()
  newstate,       \* local newstate of trigger(): what input() returned
  prev,           \* the state whose input() was called by the most recent iteration
  elapsed,        \* now - started as seen by that call, in clock units
  ticks,          \* iterations of the main loop executed while the input is
                  \* unconstrained (mode "free")
  trail,          \* history: the states entered since the machine was last in
                  \* OFF (or since startup), oldest first
  entries,        \* history: how many state instances have been constructed
  mode,           \* what the trigger lines do: "free" (anything), "low" (every
                  \* channel low from now on), "high" (channel held stays high)
  held,           \* the channel that stays high in mode "high", else 0
  since,          \* the time the mode began
  calm            \* iterations evaluated in the settled state of the mode

vars == <<pc, current_state, started, now, hat, i, newstate, prev, elapsed,
          ticks, trail, entries, mode, held, since, calm>>

\* ------------------------------------------------------------ output writes
LightWrite(h, name, v) == [h EXCEPT ![name] = v, !.writes = @ \cup {name}]

RelayWrite(h, k, v) == [h EXCEPT !.relay[k] = v, !.writes = @ \cup {"relay"}]

\* "1 in input"
HasHigh(input) == \E k \in Channels : input[k] = 1

\* (datetime.datetime.now() - self.started).total_seconds(), in clock units
Elapsed(t, self) == t - self

\* --------------------------------------------------------------- StateOff
\* StateOff.__init__ without the three relay.off() calls
StateOffInit_KeepsRelays(h) ==
  LET h1 == LightWrite(h, "power", 0)
      h2 == LightWrite(h1, "comms", 0)
  IN  LightWrite(h2, "warn", 0)

StateOffInit(h) ==
  LET h1 == LightWrite(h, "power", 0)
      h2 == LightWrite(h1, "comms", 0)
      h3 == LightWrite(h2, "warn", 0)
      h4 == RelayWrite(h3, 1, 0)
      h5 == RelayWrite(h4, 2, 0)
  IN  RelayWrite(h5, 3, 0)

\* StateOff.input naming its own state when the input is low
StateOffInput_ReturnsOff(self, input, t, h) ==
  IF HasHigh(input) THEN [ret |-> "turning_on", hat |-> h]
  ELSE [ret |-> "off", hat |-> h]

\* StateOff.input going straight to 'on'
StateOffInput_StraightOn(self, input, t, h) ==
  IF HasHigh(input) THEN [ret |-> "on", hat |-> h]
  ELSE [ret |-> "", hat |-> h]

\* StateOff.input looking at the first channel only
StateOffInput_FirstChannel(self, input, t, h) ==
  IF input[1] = 1 THEN [ret |-> "turning_on", hat |-> h]
  ELSE [ret |-> "", hat |-> h]

StateOffInput(self, input, t, h) ==
  IF HasHigh(input) THEN [ret |-> "turning_on", hat |-> h]
  ELSE [ret |-> "", hat |-> h]

\* ---------------------------------------------------------- StateTurningOn
\* StateTurningOn.__init__ also switching the three relays off
StateTurningOnInit_WritesRelays(h) ==
  LET h1 == LightWrite(h, "power", 1)
      h2 == LightWrite(h1, "comms", Full)
      h3 == LightWrite(h2, "warn", 0)
      h4 == RelayWrite(h3, 1, 0)
      h5 == RelayWrite(h4, 2, 0)
  IN  RelayWrite(h5, 3, 0)

StateTurningOnInit(h) ==
  LET h1 == LightWrite(h, "power", 1)
      h2 == LightWrite(h1, "comms", Full)
  IN  LightWrite(h2, "warn", 0)

\* max(.01, pct_elapsed): the LED brightening as time elapses
Brightness_Rising(e) == IF e > MinBrightness THEN e ELSE MinBrightness

\* max(.01, 1 - pct_elapsed), scaled by Full
Brightness(e) == IF Full - e > MinBrightness THEN Full - e ELSE MinBrightness

\* StateTurningOn.input giving up and going back to 'off' on the timeout
StateTurningOnInput_TimeoutToOff(self, input, t, h) ==
  IF ~HasHigh(input) THEN [ret |-> "armed", hat |-> h]
  ELSE IF Elapsed(t, self) >= POWERON_HOLD_TIME * TicksPerSecond
       THEN [ret |-> "off", hat |-> h]
       ELSE [ret |-> "",
             hat |-> LightWrite(h, "comms", Brightness(Elapsed(t, self)))]

\* StateTurningOn.input without the POWERON_HOLD_TIME escape
StateTurningOnInput_NoTimeout(self, input, t, h) ==
  IF ~HasHigh(input) THEN [ret |-> "armed", hat |-> h]
  ELSE [ret |-> "",
        hat |-> LightWrite(h, "comms", Brightness(Elapsed(t, self)))]

StateTurningOnInput(self, input, t, h) ==
  IF ~HasHigh(input) THEN [ret |-> "armed", hat |-> h]
  ELSE IF Elapsed(t, self) >= POWERON_HOLD_TIME * TicksPerSecond
       THEN [ret |-> "armed", hat |-> h]
       ELSE [ret |-> "",
             hat |-> LightWrite(h, "comms", Brightness(Elapsed(t, self)))]

\* -------------------------------------------------------------- StateArmed
\* StateArmed.__init__ without light.comms.off()
StateArmedInit_CommsStaysOn(h) ==
  LET h1 == LightWrite(h, "power", 1)
  IN  LightWrite(h1, "warn", 1)

StateArmedInit(h) ==
  LET h1 == LightWrite(h, "power", 1)
      h2 == LightWrite(h1, "comms", 0)
  IN  LightWrite(h2, "warn", 1)

\* StateArmed.input without the ARMED_HOLD_TIME timeout
StateArmedInput_NoTimeout(self, input, t, h) ==
  IF HasHigh(input) THEN [ret |-> "on", hat |-> h]
  ELSE [ret |-> "", hat |-> h]

\* StateArmed.input with > in place of >= in the timeout test
StateArmedInput_StrictTimeout(self, input, t, h) ==
  IF HasHigh(input) THEN [ret |-> "on", hat |-> h]
  ELSE IF Elapsed(t, self) > ARMED_HOLD_TIME * TicksPerSecond
       THEN [ret |-> "off", hat |-> h]
       ELSE [ret |-> "", hat |-> h]

\* StateArmed.input testing the timeout before the sample
StateArmedInput_TimeoutFirst(self, input, t, h) ==
  IF Elapsed(t, self) >= ARMED_HOLD_TIME * TicksPerSecond
  THEN [ret |-> "off", hat |-> h]
  ELSE IF HasHigh(input) THEN [ret |-> "on", hat |-> h]
       ELSE [ret |-> "", hat |-> h]

StateArmedInput(self, input, t, h) ==
  IF HasHigh(input) THEN [ret |-> "on", hat |-> h]
  ELSE IF Elapsed(t, self) >= ARMED_HOLD_TIME * TicksPerSecond
       THEN [ret |-> "off", hat |-> h]
       ELSE [ret |-> "", hat |-> h]

\* ----------------------------------------------------------------- StateOn
\* StateOn.__init__ switching the second relay on
StateOnInit_SecondRelayOn(h) ==
  LET h1 == LightWrite(h, "power", 1)
      h2 == LightWrite(h1, "comms", 0)
      h3 == LightWrite(h2, "warn", 0)
  IN  RelayWrite(h3, 2, 1)

StateOnInit(h) ==
  LET h1 == LightWrite(h, "power", 1)
      h2 == LightWrite(h1, "comms", 0)
  IN  LightWrite(h2, "warn", 0)

\* StateOn.input switching all three relays on in one shot
StateOnInput_AllRelaysOn(self, input, t, h) ==
  IF ~HasHigh(input) THEN [ret |-> "off", hat |-> h]
  ELSE LET h1 == RelayWrite(h, 1, 1)
           h2 == RelayWrite(h1, 2, 1)
           h3 == RelayWrite(h2, 3, 1)
       IN  [ret |-> "", hat |-> h3]

\* StateOn.input leaving ON as soon as the first channel is low
StateOnInput_FirstChannel(self, input, t, h) ==
  IF input[1] # 1 THEN [ret |-> "off", hat |-> h]
  ELSE LET h1 == RelayWrite(h, 1, IF input[1] = 1 THEN 1 ELSE 0)
           h2 == RelayWrite(h1, 2, IF input[2] = 1 THEN 1 ELSE 0)
           h3 == RelayWrite(h2, 3, IF input[3] = 1 THEN 1 ELSE 0)
       IN  [ret |-> "", hat |-> h3]

StateOnInput(self, input, t, h) ==
  IF ~HasHigh(input) THEN [ret |-> "off", hat |-> h]
  ELSE LET h1 == RelayWrite(h, 1, IF input[1] = 1 THEN 1 ELSE 0)
           h2 == RelayWrite(h1, 2, IF input[2] = 1 THEN 1 ELSE 0)
           h3 == RelayWrite(h2, 3, IF input[3] = 1 THEN 1 ELSE 0)
       IN  [ret |-> "", hat |-> h3]

\* ------------------------------------------------------ states, set_state
\* states[state](): the constructor of the class registered under the name
states(state, h) ==
  CASE state = "off"        -> StateOffInit(h)
    [] state = "turning_on" -> StateTurningOnInit(h)
    [] state = "armed"      -> StateArmedInit(h)
    [] state = "on"         -> StateOnInit(h)

\* set_state constructing a new instance of the current class when input()
\* returned no transition
set_state_Reenters(state, t, h) ==
  LET target == IF state = "" THEN current_state ELSE state
  IN  /\ current_state' = target
      /\ started' = t
      /\ hat' = states(target, h)
      /\ trail' = IF state = "" THEN trail
                  ELSE IF state = "off" THEN <<"off">> ELSE Append(trail, state)
      /\ entries' = entries + 1

\* the entry timestamp taken once, not per instance: a transition keeps the
\* timestamp of the state it leaves
set_state_KeepsTimestamp(state, t, h) ==
  IF state = ""
  THEN /\ current_state' = current_state
       /\ started' = started
       /\ hat' = h
       /\ trail' = trail
       /\ entries' = entries
  ELSE /\ current_state' = state
       /\ started' = IF current_state = "none" THEN t ELSE started
       /\ hat' = states(state, h)
       /\ trail' = IF state = "off" THEN <<"off">> ELSE Append(trail, state)
       /\ entries' = entries + 1

\* set_state(state) called at time t with the outputs as they are, h
set_state(state, t, h) ==
  IF state = ""
  THEN /\ current_state' = current_state
       /\ started' = started
       /\ hat' = h
       /\ trail' = trail
       /\ entries' = entries
  ELSE /\ current_state' = state
       /\ started' = t
       /\ hat' = states(state, h)
       /\ trail' = IF state = "off" THEN <<"off">> ELSE Append(trail, state)
       /\ entries' = entries + 1

\* trigger() starting the power-on sequence when the input is high
InitialState_TurningOn(input) == IF HasHigh(input) THEN "turning_on" ELSE "off"

\* the state trigger() starts in, from the sample read at startup
InitialState(input) == IF HasHigh(input) THEN "on" ELSE "off"

\* ------------------------------------------------------------------ Init
Init ==
  /\ pc = "start"
  /\ current_state = "none"
  /\ started = 0
  /\ now = 0
  /\ hat = [power |-> 0, comms |-> 0, warn |-> 0, relay |-> AllLow, writes |-> {}]
  /\ i = AllLow
  /\ newstate = ""
  /\ prev = "none"
  /\ elapsed = 0
  /\ ticks = 0
  /\ trail = <<>>
  /\ entries = 0
  /\ mode = "free"
  /\ held = 0
  /\ since = 0
  /\ calm = 0

\* --------------------------------------------------------------- actions
\* the samples getInput() can return in the current mode of the trigger lines
Readable ==
  CASE mode = "free" -> Samples
    [] mode = "low"  -> {AllLow}
    [] mode = "high" -> {s \in Samples : s[held] = 1}

\* the state a constrained input leads to and keeps the machine in
Settled ==
  CASE mode = "free" -> FALSE
    [] mode = "low"  -> current_state = "off"
    [] mode = "high" -> current_state = "on" /\ prev = "on"

\* how long a constrained input is followed while the machine has not settled:
\* both hold times, each overshot by one longest delay
Horizon == (POWERON_HOLD_TIME + 3 * ARMED_HOLD_TIME) * TicksPerSecond

\* trigger(), up to the main loop: one sample decides the first state
Startup(s) ==
  /\ pc = "start"
  /\ pc' = "loop"
  /\ i' = s
  /\ set_state(InitialState(s), now, [hat EXCEPT !.writes = {}])
  /\ UNCHANGED <<now, newstate, prev, elapsed, ticks, mode, held, since, calm>>

StartOn == \E s \in Readable : HasHigh(s) /\ Startup(s)

StartOff == \E s \in Readable : ~HasHigh(s) /\ Startup(s)

\* one iteration of the main loop: sleep, getInput, current_state.input(i),
\* set_state(newstate); r is what input(i) returned and wrote
Iteration(s, t, r) ==
  /\ now' = t
  /\ i' = s
  /\ newstate' = r.ret
  /\ prev' = current_state
  /\ elapsed' = Elapsed(t, started)
  /\ ticks' = IF mode = "free" THEN ticks + 1 ELSE ticks
  /\ set_state(r.ret, t, r.hat)
  /\ calm' = IF Settled THEN calm + 1 ELSE calm
  /\ UNCHANGED <<pc, mode, held, since>>

CanTick(name) ==
  /\ pc = "loop"
  /\ current_state = name
  /\ IF mode = "free" THEN ticks < MaxTicks
     ELSE IF Settled THEN calm < MaxCalm
     ELSE now - since < Horizon

Quiet == [hat EXCEPT !.writes = {}]

TickOff ==
  /\ CanTick("off")
  /\ \E d \in Delays, s \in Readable :
       Iteration(s, now + d, StateOffInput(started, s, now + d, Quiet))

TickTurningOn ==
  /\ CanTick("turning_on")
  /\ \E d \in Delays, s \in Readable :
       Iteration(s, now + d, StateTurningOnInput(started, s, now + d, Quiet))

TickArmed ==
  /\ CanTick("armed")
  /\ \E d \in Delays, s \in Readable :
       Iteration(s, now + d, StateArmedInput(started, s, now + d, Quiet))

TickOn ==
  /\ CanTick("on")
  /\ \E d \in Delays, s \in Readable :
       Iteration(s, now + d, StateOnInput(started, s, now + d, Quiet))

Next == StartOn \/ StartOff \/ TickOff \/ TickTurningOn \/ TickArmed \/ TickOn

Spec == Init /\ [][Next]_vars

\* the trigger lines all go low and stay low
InputStaysLow ==
  /\ mode = "free" /\ ticks <= MaxFreeTicks
  /\ mode' = "low" /\ held' = 0 /\ since' = now /\ calm' = 0
  /\ UNCHANGED <<pc, current_state, started, now, hat, i, newstate, prev,
                 elapsed, ticks, trail, entries>>

\* the machine has started in OFF and, before the first iteration, one
\* trigger line goes high and stays high
InputStuckHigh ==
  /\ mode = "free" /\ pc = "loop" /\ current_state = "off" /\ prev = "none"
  /\ \E c \in Channels : held' = c
  /\ mode' = "high" /\ since' = now /\ calm' = 0
  /\ UNCHANGED <<pc, current_state, started, now, hat, i, newstate, prev,
                 elapsed, ticks, trail, entries>>

NextLow == Next \/ InputStaysLow

NextHigh == Next \/ InputStuckHigh

\* the loop of trigger() never ends and sleep() returns: an iteration that can
\* run does run
SpecLow == Init /\ [][NextLow]_vars /\ WF_vars(Next)

SpecHigh == Init /\ [][NextHigh]_vars /\ WF_vars(Next)

TypeOK ==
  /\ pc \in {"start", "loop"}
  /\ current_state \in {"none", "off", "turning_on", "armed", "on"}
  /\ started \in Nat /\ now \in Nat /\ started <= now
  /\ hat.power \in {0, 1} /\ hat.warn \in {0, 1} /\ hat.comms \in 0..Full
  /\ hat.relay \in Samples
  /\ i \in Samples
  /\ newstate \in {"", "off", "turning_on", "armed", "on"}
  /\ ticks \in Nat
  /\ Len(trail) <= 4
  /\ entries \in Nat
  /\ mode \in {"free", "low", "high"}
  /\ held \in 0..3 /\ (mode = "high" <=> held # 0)
  /\ since \in Nat /\ since <= now
  /\ calm \in 0..MaxCalm

\* ------------------------------------------------------------- properties
PowerOnHold == POWERON_HOLD_TIME * TicksPerSecond
ArmedHold == ARMED_HOLD_TIME * TicksPerSecond
S010 == [k \in Channels |-> IF k = 2 THEN 1 ELSE 0]
AnyRelayOn == \E k \in Channels : hat.relay[k] = 1
LightsOff == hat.power = 0 /\ hat.comms = 0 /\ hat.warn = 0

\* C1: relay gating.  Whenever some relay is on the current state is ON; in
\* OFF, TURNING_ON and ARMED (and before the first state is set) every relay
\* is off.
C1_RelayGating == AnyRelayOn => current_state = "on"

C1_Witness == current_state = "on" /\ hat.relay[2] = 1 /\ prev = "on"

\* C2: transition topology.  Every state change made by an iteration of the
\* loop is one of the five edges, input() never returns the name of the state
\* it was called on, and the states entered since the last OFF are a prefix
\* of OFF, TURNING_ON, ARMED, ON: ON is entered from OFF only through
\* TURNING_ON and then ARMED.
Edges == {<<"off", "turning_on">>, <<"turning_on", "armed">>,
          <<"armed", "on">>, <<"armed", "off">>, <<"on", "off">>}

C2_Topology ==
  [][pc = "loop" =>
       /\ current_state' = current_state \/ <<current_state, current_state'>> \in Edges
       /\ newstate' # current_state
       /\ current_state' = IF newstate' = "" THEN current_state ELSE newstate'
       /\ (current_state' = "on" /\ trail' # <<>> /\ Head(trail') = "off")
            => trail' = <<"off", "turning_on", "armed", "on">>]_vars

C2_Witness == current_state = "on" /\ trail = <<"off", "turning_on", "armed", "on">>

\* C3: an iteration evaluated in OFF moves to TURNING_ON exactly when its
\* sample has a channel high; with every channel low input() returns no
\* transition and the state stays OFF, whatever the elapsed time.
C3_OffRule ==
  prev = "off" =>
    /\ current_state = "turning_on" <=> HasHigh(i)
    /\ ~HasHigh(i) => current_state = "off" /\ newstate = ""

C3_Witness ==
  /\ prev = "off" /\ current_state = "turning_on"
  /\ i[1] = 0 /\ i[2] = 1 /\ elapsed >= ArmedHold

\* C4: an iteration evaluated in TURNING_ON moves to ARMED when every channel
\* is low or when elapsed >= POWERON_HOLD_TIME whatever the sample; with a
\* channel high and elapsed below POWERON_HOLD_TIME it stays in TURNING_ON.
C4_TurningOnRule ==
  prev = "turning_on" =>
    /\ (~HasHigh(i) \/ elapsed >= PowerOnHold) => current_state = "armed"
    /\ (HasHigh(i) /\ elapsed < PowerOnHold) =>
         current_state = "turning_on" /\ newstate = ""

C4_Witness ==
  /\ prev = "turning_on" /\ current_state = "armed"
  /\ HasHigh(i) /\ elapsed >= PowerOnHold

C7_PassThrough == prev = "on" => \A k \in Channels : hat.relay[k] = i[k]

C7_Witness ==
  /\ prev = "on" /\ current_state = "on"
  /\ hat.relay[1] = 1 /\ hat.relay[2] = 0 /\ hat.relay[3] = 1

\* C8: an iteration evaluated in ON moves to OFF exactly when every channel
\* of the sample is low, whatever the elapsed time, and on that transition
\* all three relays and all three lights are switched off.
C8_OnRule ==
  prev = "on" =>
    /\ current_state = "off" <=> ~HasHigh(i)
    /\ HasHigh(i) => current_state = "on" /\ newstate = ""
    /\ current_state = "off" =>
         /\ ~AnyRelayOn /\ LightsOff
         /\ {"power", "comms", "warn", "relay"} \subseteq hat.writes

C8_Witness ==
  /\ prev = "on" /\ current_state = "off" /\ ~AnyRelayOn /\ LightsOff
  /\ elapsed >= ArmedHold

\* C9 as stated: on the iteration that moves from ARMED to ON on the sample
\* (0,1,0) within ARMED_HOLD_TIME, the relays already equal the sample.
C9_Original ==
  (prev = "armed" /\ current_state = "on" /\ i = S010 /\ elapsed < ArmedHold)
    => hat.relay = S010

\* C9 (amended): the iteration that moves from ARMED to ON on the sample
\* (0,1,0) within ARMED_HOLD_TIME writes no relay and leaves all three relays
\* off; relay 2 is switched on, relays 1 and 3 staying off, by the next
\* iteration when its sample is again (0,1,0).
C9_RelaysAfterArmedToOn ==
  [][/\ (prev' = "armed" /\ current_state' = "on" /\ i' = S010
           /\ elapsed' < ArmedHold)
          => (hat'.relay = AllLow /\ hat'.relay = hat.relay
                /\ "relay" \notin hat'.writes)
     /\ (prev = "armed" /\ current_state = "on" /\ i = S010
           /\ ticks' = ticks + 1 /\ i' = S010)
          => hat'.relay = S010]_vars

C9_Witness ==
  /\ prev = "armed" /\ current_state = "on" /\ i = S010
  /\ elapsed < ArmedHold /\ hat.relay = AllLow

\* C10: the first state is decided by the one sample read before the loop:
\* ON if a channel of it is high, OFF otherwise; no state is set before that
\* sample, and the first state is never TURNING_ON or ARMED.
C10_InitialState ==
  /\ pc = "start" => current_state = "none"
  /\ (pc = "loop" /\ ticks = 0) =>
       /\ current_state = IF HasHigh(i) THEN "on" ELSE "off"
       /\ started = now /\ prev = "none"
       /\ trail = <<current_state>>

C10_Witness ==
  pc = "loop" /\ ticks = 0 /\ current_state = "on" /\ i[3] = 1 /\ i[1] = 0

\* C11: an iteration whose input() returns no transition keeps the current
\* state instance: the state and its entry timestamp are unchanged, no
\* instance is constructed and no entry side effect runs (the only writes are
\* the comms brightness in TURNING_ON and the relays in ON).  The dwell such
\* an iteration saw is counted from the unchanged timestamp, so repeated
\* no-transition iterations postpone neither the ARMED nor the TURNING_ON
\* timeout.
C11_NoTransitionTick ==
  [][(ticks' = ticks + 1 /\ newstate' = "") =>
       /\ current_state' = current_state
       /\ started' = started
       /\ entries' = entries
       /\ "power" \notin hat'.writes /\ "warn" \notin hat'.writes
       /\ hat'.writes = CASE current_state = "turning_on" -> {"comms"}
                          [] current_state = "on" -> {"relay"}
                          [] OTHER -> {}
       /\ elapsed' = now' - started'
       /\ current_state = "armed" => now' - started' < ArmedHold
       /\ current_state = "turning_on" => now' - started' < PowerOnHold]_vars

C11_Witness ==
  /\ prev = "armed" /\ current_state = "armed" /\ newstate = ""
  /\ elapsed = 2 * READ_INTERVAL /\ now = started + elapsed

\* C12: the entry timestamp changes only with the state; every state change
\* constructs exactly one instance, stamped with the time of the change and
\* running that state's entry writes; an iteration without state change
\* constructs none.  The dwell an iteration sees is the time since the
\* current state was entered, so the ARMED dwell counts from the entry into
\* ARMED and not from the entry into TURNING_ON.
C12_EntryTimestamp ==
  [][/\ started' # started => current_state' # current_state
     /\ current_state' # current_state =>
          /\ started' = now'
          /\ entries' = entries + 1
          /\ {"power", "comms", "warn"} \subseteq hat'.writes
     /\ current_state' = current_state =>
          (started' = started /\ entries' = entries)
     /\ ticks' = ticks + 1 => elapsed' = now' - started
     /\ (current_state' = "armed" /\ current_state = "turning_on") =>
          (started' = now' /\ started' >= started)]_vars

C12_Witness ==
  /\ current_state = "armed" /\ prev = "armed" /\ entries = 3
  /\ elapsed = READ_INTERVAL /\ now > ArmedHold + READ_INTERVAL

\* C13: once the first state is set the lights are a function of the state:
\* OFF all off; TURNING_ON power on, warn off, comms lit; ARMED power on,
\* comms off, warn on; ON power on, comms off, warn off.  So warn is on iff
\* the state is ARMED and comms is lit iff the state is TURNING_ON.
C13_Indicators ==
  pc = "loop" =>
    /\ current_state = "off" => LightsOff
    /\ current_state = "turning_on" =>
         (hat.power = 1 /\ hat.warn = 0 /\ hat.comms > 0)
    /\ current_state = "armed" =>
         (hat.power = 1 /\ hat.comms = 0 /\ hat.warn = 1)
    /\ current_state = "on" =>
         (hat.power = 1 /\ hat.comms = 0 /\ hat.warn = 0)
    /\ hat.warn = 1 <=> current_state = "armed"
    /\ hat.comms > 0 <=> current_state = "turning_on"

C13_Witness ==
  /\ current_state = "armed" /\ prev = "turning_on"
  /\ hat.power = 1 /\ hat.comms = 0 /\ hat.warn = 1

\* C14: comms brightness in TURNING_ON is 1.0 on entry; every later
\* no-transition iteration sets it to max(.01, 1 - elapsed/POWERON_HOLD_TIME);
\* within one dwell it never increases and is never below .01.
C14_Brightness ==
  [][current_state' = "turning_on" =>
       IF current_state # "turning_on"
       THEN hat'.comms = Full /\ now' = started'
       ELSE /\ "comms" \in hat'.writes
            /\ hat'.comms = IF Full - elapsed' > MinBrightness
                            THEN Full - elapsed' ELSE MinBrightness
            /\ hat'.comms <= hat.comms
            /\ hat'.comms >= MinBrightness]_vars

C14_Witness ==
  /\ prev = "turning_on" /\ current_state = "turning_on"
  /\ elapsed = PowerOnHold - READ_INTERVAL /\ hat.comms = MinBrightness

\* C15: an iteration evaluated in OFF with every channel low leaves the state
\* OFF, every relay and every light off, and writes no output at all.
C15_OffQuiescence ==
  (prev = "off" /\ ~HasHigh(i)) =>
    /\ current_state = "off" /\ newstate = ""
    /\ ~AnyRelayOn /\ LightsOff
    /\ hat.writes = {}

C15_Witness ==
  /\ prev = "off" /\ ~HasHigh(i) /\ current_state = "off"
  /\ elapsed >= 2 * ArmedHold /\ hat.writes = {}

\* C16: relays are written only by the entry into OFF and by a no-transition
\* iteration evaluated in ON, and change only when written; entering
\* TURNING_ON, ARMED or ON (also at startup) writes no relay.  So when the
\* first iteration after entering ON samples every channel low, the machine
\* returns to OFF with no relay having been on during that visit to ON.
C16_RelayFrame ==
  [][/\ "relay" \in hat'.writes =>
          \/ current_state' = "off" /\ current_state # "off"
          \/ /\ current_state = "on" /\ current_state' = "on"
             /\ newstate' = "" /\ ticks' = ticks + 1
     /\ hat'.relay # hat.relay => "relay" \in hat'.writes
     /\ (current_state' \in {"turning_on", "armed", "on"}
           /\ current_state' # current_state) =>
          (hat'.relay = hat.relay /\ "relay" \notin hat'.writes)
     /\ (current_state = "on" /\ prev # "on" /\ current_state' = "off") =>
          (hat.relay = AllLow /\ hat'.relay = AllLow)]_vars

C16_Witness ==
  /\ prev = "on" /\ current_state = "off" /\ ticks = 4 /\ entries = 5
  /\ hat.relay = AllLow

\* C17: return to rest.  Once every sample has all channels low and iterations
\* keep running, the machine reaches OFF with all relays and lights off and
\* stays there: the iteration evaluated in ON goes to OFF, the one evaluated
\* in TURNING_ON goes to ARMED, and ARMED goes to OFF on the first iteration
\* with elapsed >= ARMED_HOLD_TIME.
Rest == current_state = "off" /\ ~AnyRelayOn /\ LightsOff

C17_ReturnToRest ==
  /\ (mode = "low") ~> [](Rest)
  /\ [][(mode = "low" /\ pc = "loop" /\ now' > now) =>
          /\ current_state = "on" => current_state' = "off"
          /\ current_state = "turning_on" => current_state' = "armed"
          /\ current_state = "armed" =>
               current_state' = IF elapsed' >= ArmedHold THEN "off" ELSE "armed"
          /\ current_state = "off" => Rest']_vars

C17_Witness ==
  /\ mode = "low" /\ Rest /\ calm = MaxCalm
  /\ trail = <<"off">> /\ started > since + ArmedHold

\* C18: stuck-high input.  With the machine started in OFF and one channel
\* high on every sample from then on, the machine goes to TURNING_ON on the
\* first iteration, stays there until the first iteration with elapsed >=
\* POWERON_HOLD_TIME, which goes to ARMED, goes to ON on the next iteration
\* and stays in ON; from the iteration after the one that entered ON the
\* relays equal the sample, and no relay is on before that iteration.
Mirroring ==
  /\ current_state = "on" /\ prev = "on"
  /\ hat.relay = i
  /\ held \in Channels /\ i[held] = 1

====
